---- MODULE Spec2Model ----
(***************************************************************************)
(* A model of diferenca_ofertas.py: the extraction of an offer table from  *)
(* the raw rows of a PDF (process_pdf_to_dataframe), the comparison of two *)
(* tables (compare_dataframes) and the batch that writes one sheet per     *)
(* document plus the sheet of differences (pdfs_to_excel_with_sheets, the  *)
(* second definition, which is the one bound to the name at run time).     *)
(*                                                                         *)
(* Text is a sequence of one-character strings, so that str.strip, the     *)
(* "in" substring test, str.replace, slicing and f-string concatenation    *)
(* are computed character by character.  Every cell of a raw row is text.  *)
(***************************************************************************)
EXTENDS Integers, Sequences, FiniteSets, TLC

VARIABLES
  pc,                \* position of the running function
  all_tables,        \* process_pdf_to_dataframe: the raw rows of the document
  header_row_idx,    \* process_pdf_to_dataframe: 0-based index of the header row
  data_rows,         \* process_pdf_to_dataframe: rows kept below the header
  df,                \* process_pdf_to_dataframe: the returned DataFrame
  pdf_paths,         \* the batch: the documents, in input order
  next_pdf,          \* the batch: number of documents whose loop body has run
  processed_data,    \* the batch: the (df, date, filename) kept, in order
  next_sheet,        \* the batch: number of processed documents already written
  sheetnames,        \* the batch: writer.book.sheetnames
  writer_closed,     \* the batch: writer.close() was executed (file saved)
  df1, df2,          \* compare_dataframes: the two tables
  date1, date2,      \* compare_dataframes: their labels
  all_codes,         \* compare_dataframes: codes the loop has still to visit
  differences,       \* compare_dataframes: the list of (row dict, info)
  comparison_result  \* compare_dataframes: the returned value

vars == <<pc, all_tables, header_row_idx, data_rows, df, pdf_paths, next_pdf,
          processed_data, next_sheet, sheetnames, writer_closed, df1, df2, date1, date2,
          all_codes, differences, comparison_result>>

pdfVars == <<all_tables, header_row_idx, data_rows, df>>
batchVars == <<pdf_paths, next_pdf, processed_data, next_sheet, sheetnames, writer_closed>>
cmpVars == <<df1, df2, date1, date2, all_codes, differences, comparison_result>>

-----------------------------------------------------------------------------
(* Text helpers *)

\* characters str.strip() removes
Whitespace == {" ", "\n"}

RECURSIVE lstrip(_)
lstrip(s) == IF s # <<>> /\ Head(s) \in Whitespace THEN lstrip(Tail(s)) ELSE s

RECURSIVE rstrip(_)
rstrip(s) ==
  IF s # <<>> /\ s[Len(s)] \in Whitespace THEN rstrip(SubSeq(s, 1, Len(s) - 1)) ELSE s

\* str.strip()
strip(s) == rstrip(lstrip(s))

\* sep.join(parts)
RECURSIVE Join(_, _)
Join(sep, parts) ==
  IF parts = <<>> THEN <<>>
  ELSE IF Len(parts) = 1 THEN parts[1]
  ELSE parts[1] \o sep \o Join(sep, Tail(parts))

\* Python's  sub in s
Contains(sub, s) ==
  \E i \in 0..(Len(s) - Len(sub)) : SubSeq(s, i + 1, i + Len(sub)) = sub

\* str(n) of a positive integer
RECURSIVE IntToStr(_)
IntToStr(n) ==
  LET digit == <<"0", "1", "2", "3", "4", "5", "6", "7", "8", "9">>[(n % 10) + 1]
  IN IF n < 10 THEN <<digit>> ELSE IntToStr(n \div 10) \o <<digit>>

-----------------------------------------------------------------------------
(* process_pdf_to_dataframe *)

\* the literal "CÓD. REF" searched for on line 65
CodRef == <<"C", "Ó", "D", ".", " ", "R", "E", "F">>

\* (variant: the marker compared with the stripped cell instead of searched in it)
RowHasCodRefExact(row) == \E c \in 1..Len(row) : strip(row[c]) = CodRef

\* any("CÓD. REF" in str(cell) for cell in row)
RowHasCodRef(row) == \E c \in 1..Len(row) : Contains(CodRef, row[c])

\* lines 63-71: the 0-based index of the first row with the marker, else 0
FindHeaderIdx(tables) ==
  LET hits == {i \in 0..(Len(tables) - 1) : RowHasCodRef(tables[i + 1])}
  IN IF hits = {} THEN 0 ELSE CHOOSE i \in hits : \A j \in hits : i <= j

\* lines 72-74
ActualHeaders(tables, h) == tables[h + 1]

\* lines 77-80: rows below the header with the header's number of cells
CollectRows(tables, h) ==
  LET headers == ActualHeaders(tables, h)
      SameLen(row) == Len(row) = Len(headers)
  IN SelectSeq(SubSeq(tables, h + 2, Len(tables)), SameLen)

\* (variant: line 86 without .str.strip())
DropEmptyRows(rows) ==
  LET KeyNotEmpty(row) == row[1] # <<>>
  IN SelectSeq(rows, KeyNotEmpty)

\* line 86: keep the rows whose first cell is not empty once stripped
DropBlankRows(rows) ==
  LET KeyNotBlank(row) == strip(row[1]) # <<>>
  IN SelectSeq(rows, KeyNotBlank)

\* a DataFrame is its columns and its rows; none marks Python's None
NoneDF == [none |-> TRUE, columns |-> <<>>, rows |-> <<>>]

\* lines 83-86: the DataFrame built from the rows kept
MakeDataFrame(headers, rows) ==
  [none |-> FALSE, columns |-> headers, rows |-> DropBlankRows(rows)]

\* lines 46-88 as one function of the raw rows
TablesToDataFrame(tables) ==
  IF tables = <<>> THEN NoneDF
  ELSE LET h == FindHeaderIdx(tables)
       IN MakeDataFrame(ActualHeaders(tables, h), CollectRows(tables, h))

-----------------------------------------------------------------------------
(* compare_dataframes *)

ExclusivoEm == <<"E", "x", "c", "l", "u", "s", "i", "v", "o", " ", "e", "m", " ">>
DiferencaEm == <<"D", "i", "f", "e", "r", "e", "n", "ç", "a", " ", "e", "m", " ">>

\* None, as the value compare_dataframes returns without differences
NoResult == [none |-> TRUE, rows |-> <<>>, info |-> <<>>]

\* lines 97-98: the COD_REF column, one value per row
CodRefColumn(d) == [i \in 1..Len(d.rows) |-> strip(d.rows[i][1])]

\* line 101
AllCodes(a, b) ==
  {CodRefColumn(a)[i] : i \in 1..Len(a.rows)} \cup {CodRefColumn(b)[i] : i \in 1..Len(b.rows)}

\* lines 107-108: d[d['COD_REF'] == code], the rows in their order
RowsWithCode(d, code) ==
  LET HasCode(row) == strip(row[1]) = code
  IN SelectSeq(d.rows, HasCode)

\* (variant: .iloc[-1])
IlocLast(rows) == rows[Len(rows)]

\* .iloc[0] on lines 114, 120, 121
Iloc0(rows) == rows[1]

\* row[col]: the cell of a row under the column named col
Cell(columns, row, col) ==
  row[CHOOSE i \in 1..Len(columns) : columns[i] = col /\ \A j \in 1..(i - 1) : columns[j] # col]

\* (variant: lines 130-131 without .strip())
StrNoStrip(value) == value

\* lines 130-131: str(value).strip() of a text cell
StrStrip(value) == strip(value)

\* (variant: f"{val2}/{val1}")
MergedValueSwapped(val1, val2) == val2 \o <<"/">> \o val1

\* line 135: f"{val1}/{val2}"
MergedValue(val1, val2) == val1 \o <<"/">> \o val2

\* line 112
SourceDf(row1, row2) == IF row2 = <<>> THEN df1 ELSE df2

\* (variant: the two labels exchanged)
SourceDateSwapped(row1, row2) == IF row2 = <<>> THEN date2 ELSE date1

\* line 113
SourceDate(row1, row2) == IF row2 = <<>> THEN date1 ELSE date2

\* lines 112-116: the entry of a code held by one table only
ExclusiveEntry(code, row1, row2) ==
  LET source_df == SourceDf(row1, row2)
      source_date == SourceDate(row1, row2)
      row == Iloc0(RowsWithCode(source_df, code))
  IN [dict |-> [columns |-> source_df.columns, cells |-> row, COD_REF |-> code,
                ORIGEM |-> ExclusivoEm \o source_date],
      info |-> [whole_row |-> TRUE, columns |-> <<>>]]

\* lines 123-135: the loop over df1.columns from column c on (COD_REF, which
\* the loop skips, is not among the columns here); acc is
\* <<different_columns, merged_row>>
RECURSIVE CompareColumns(_, _, _, _, _)
CompareColumns(row1, row2, cols2, c, acc) ==
  IF c > Len(df1.columns) THEN acc
  ELSE LET col == df1.columns[c]
           val1 == StrStrip(Cell(df1.columns, row1, col))
           val2 == StrStrip(Cell(cols2, row2, col))
       IN IF val1 # val2
          THEN CompareColumns(row1, row2, cols2, c + 1,
                 <<Append(acc[1], col), [acc[2] EXCEPT ![c] = MergedValue(val1, val2)]>>)
          ELSE CompareColumns(row1, row2, cols2, c + 1, acc)

\* lines 137-139
ConflictEntry(code, different_columns, merged_row) ==
  [dict |-> [columns |-> df1.columns, cells |-> merged_row, COD_REF |-> code,
             ORIGEM |-> DiferencaEm \o Join(<<",", " ">>, different_columns)],
   info |-> [whole_row |-> FALSE, columns |-> different_columns]]

\* lines 107-139: the entries one iteration of the loop appends for code
EntriesFor(code) ==
  LET row1 == RowsWithCode(df1, code)
      row2 == RowsWithCode(df2, code)
  IN IF row1 = <<>> \/ row2 = <<>>
     THEN <<ExclusiveEntry(code, row1, row2)>>
     ELSE LET r1 == Iloc0(row1)
              r2 == Iloc0(row2)
              res == CompareColumns(r1, r2, df2.columns, 1, <<(<<>>), r1>>)
          IN IF res[1] # <<>> THEN <<ConflictEntry(code, res[1], res[2])>> ELSE <<>>

\* lines 141-150: None, or the table of differences (COD_REF dropped) and
\* the (info, index) list
ComparisonResult(diffs) ==
  IF diffs = <<>> THEN NoResult
  ELSE [none |-> FALSE,
        rows |-> [i \in 1..Len(diffs) |->
                    [columns |-> diffs[i].dict.columns, cells |-> diffs[i].dict.cells,
                     ORIGEM |-> diffs[i].dict.ORIGEM]],
        info |-> [i \in 1..Len(diffs) |-> <<diffs[i].info, i - 1>>]]

\* one iteration of "for code in all_codes": a set has no order of its own,
\* so any code not yet visited may come next
CompareStep ==
  /\ pc = "compare"
  /\ \E code \in all_codes :
       /\ differences' = differences \o EntriesFor(code)
       /\ all_codes' = all_codes \ {code}
  /\ UNCHANGED <<pc, pdfVars, batchVars, df1, df2, date1, date2, comparison_result>>

\* lines 141-150: the loop is over, the function returns
CompareReturn ==
  /\ pc = "compare"
  /\ all_codes = {}
  /\ comparison_result' = ComparisonResult(differences)
  /\ pc' = "compared"
  /\ UNCHANGED <<pdfVars, batchVars, df1, df2, date1, date2, all_codes, differences>>

-----------------------------------------------------------------------------
(* Inputs of compare_dataframes: two tables of one schema, as                *)
(* process_pdf_to_dataframe returns them (no blank first cell)               *)

MaxTotalRows == 3

Columns == <<CodRef, <<"M">>, <<"V">>>>

\* rows of code 1 with every combination of values, one more spelling of
\* code 1, and two rows of code 2
DataRowSet ==
  { <<(<<"1">>), m, v>> : m \in {<<"a">>, <<" ", "a">>, <<"b">>}, v \in {<<"x">>, <<"y">>} }
    \cup { <<(<<"1", " ">>), (<<"a">>), (<<"x">>)>>,
           <<(<<"2">>), (<<"a">>), (<<"x">>)>>,
           <<(<<"2">>), (<<"b">>), (<<"x">>)>> }

DataFrames(n) ==
  { [none |-> FALSE, columns |-> Columns, rows |-> r] : r \in UNION { [1..k -> DataRowSet] : k \in 0..n } }

Labels == { <<"0", "1", "_", "0", "2", "_", "2", "4">>, <<"0", "1", "-", "0", "3", "-", "2", "4">> }

InitCompare ==
  /\ pc = "compare"
  /\ df1 \in DataFrames(MaxTotalRows)
  /\ df2 \in DataFrames(MaxTotalRows - Len(df1.rows))
  /\ date1 \in Labels
  /\ date2 \in Labels
  /\ all_codes = AllCodes(df1, df2)
  /\ differences = <<>>
  /\ comparison_result = NoResult
  /\ all_tables = <<>>
  /\ header_row_idx = -1
  /\ data_rows = <<>>
  /\ df = NoneDF
  /\ pdf_paths = <<>>
  /\ next_pdf = 0
  /\ processed_data = <<>>
  /\ next_sheet = 0
  /\ sheetnames = <<>>
  /\ writer_closed = FALSE

NextCompare == CompareStep \/ CompareReturn

SpecCompare == InitCompare /\ [][NextCompare]_vars

-----------------------------------------------------------------------------
(* sanitize_sheet_name, extract_date_from_pdf *)

SheetNameLimit == 31

InvalidChars == {"\\", "/", "*", "[", "]", ":", "?"}

\* lines 13-15
ReplaceInvalid(name) ==
  [i \in 1..Len(name) |-> IF name[i] \in InvalidChars THEN "_" ELSE name[i]]

\* line 16: name[:31]
Truncate(name) ==
  IF Len(name) > SheetNameLimit THEN SubSeq(name, 1, SheetNameLimit) ELSE name

sanitize_sheet_name(name) == Truncate(ReplaceInvalid(name))

DataNaoEncontrada ==
  <<"D", "a", "t", "a", "_", "n", "a", "o", "_",
    "e", "n", "c", "o", "n", "t", "r", "a", "d", "a">>

\* lines 18-39: date_match is the text the first successful re.search of the
\* document matched, <<>> when no page has a match
extract_date_from_pdf(doc) ==
  IF doc.date_match # <<>> THEN sanitize_sheet_name(doc.date_match)
  ELSE DataNaoEncontrada

\* lines 41-88: (df, date, filename), or (None, None, None)
process_pdf_to_dataframe(doc) ==
  LET d == TablesToDataFrame(doc.tables)
  IN IF d.none THEN [df |-> NoneDF, date |-> <<>>, filename |-> <<>>]
     ELSE [df |-> d, date |-> extract_date_from_pdf(doc), filename |-> doc.filename]

-----------------------------------------------------------------------------
(* pdfs_to_excel_with_sheets (lines 292-398) *)

Diferencas == <<"D", "i", "f", "e", "r", "e", "n", "ç", "a", "s">>

InSheetnames(name, names) == \E i \in 1..Len(names) : names[i] = name

\* (variant: an "if" in place of the "while")
SuffixOnce(original_sheet_name, counter, names) ==
  original_sheet_name \o <<"_">> \o IntToStr(counter)

\* lines 320-322: the while loop, entered with the name taken
RECURSIVE SuffixLoop(_, _, _)
SuffixLoop(original_sheet_name, counter, names) ==
  LET sheet_name == original_sheet_name \o <<"_">> \o IntToStr(counter)
  IN IF InSheetnames(sheet_name, names)
     THEN SuffixLoop(original_sheet_name, counter + 1, names)
     ELSE sheet_name

\* lines 315-322
SheetName(date, filename, names) ==
  LET sheet_name == IF date # <<>> THEN date ELSE sanitize_sheet_name(filename)
  IN IF InSheetnames(sheet_name, names) THEN SuffixLoop(sheet_name, 1, names)
     ELSE sheet_name

\* (variant: len(processed_data) >= 2)
AtLeastTwo(processed) == Len(processed) >= 2

\* line 350
ExactlyTwo(processed) == Len(processed) = 2

\* lines 295-304: no path returns at once; otherwise the writer is created
\* with an empty workbook
Start ==
  /\ pc = "start"
  /\ pc' = IF pdf_paths = <<>> THEN "done" ELSE "process"
  /\ UNCHANGED <<pdfVars, batchVars, cmpVars>>

\* lines 308-311: one iteration; an exception raised while the document is
\* read is not caught here and reaches the handler of line 397
ProcessPdf ==
  /\ pc = "process"
  /\ next_pdf < Len(pdf_paths)
  /\ LET doc == pdf_paths[next_pdf + 1]
         res == process_pdf_to_dataframe(doc)
     IN IF doc.raises
        THEN /\ pc' = "error"
             /\ UNCHANGED <<next_pdf, processed_data>>
        ELSE /\ processed_data' =
                  IF res.df.none THEN processed_data ELSE Append(processed_data, res)
             /\ next_pdf' = next_pdf + 1
             /\ pc' = IF next_pdf + 1 = Len(pdf_paths) THEN "write" ELSE "process"
  /\ UNCHANGED <<pdfVars, pdf_paths, next_sheet, sheetnames, writer_closed, cmpVars>>

\* lines 314-347: one iteration, which adds the document's sheet
WriteSheet ==
  /\ pc = "write"
  /\ next_sheet < Len(processed_data)
  /\ LET item == processed_data[next_sheet + 1]
     IN sheetnames' = Append(sheetnames, SheetName(item.date, item.filename, sheetnames))
  /\ next_sheet' = next_sheet + 1
  /\ UNCHANGED <<pc, pdfVars, pdf_paths, next_pdf, processed_data, writer_closed, cmpVars>>

\* lines 350-354: with two documents processed compare_dataframes is called
BeginCompare ==
  /\ pc = "write"
  /\ next_sheet = Len(processed_data)
  /\ ExactlyTwo(processed_data)
  /\ df1' = processed_data[1].df
  /\ df2' = processed_data[2].df
  /\ date1' = processed_data[1].date
  /\ date2' = processed_data[2].date
  /\ all_codes' = AllCodes(processed_data[1].df, processed_data[2].df)
  /\ differences' = <<>>
  /\ pc' = "compare"
  /\ UNCHANGED <<pdfVars, batchVars, comparison_result>>

\* line 350, the other branch
SkipCompare ==
  /\ pc = "write"
  /\ next_sheet = Len(processed_data)
  /\ ~ExactlyTwo(processed_data)
  /\ pc' = "close"
  /\ UNCHANGED <<pdfVars, batchVars, cmpVars>>

\* lines 356-391: the sheet of differences, when the result is not None
WriteDiff ==
  /\ pc = "compared"
  /\ sheetnames' = IF comparison_result.none THEN sheetnames
                   ELSE Append(sheetnames, Diferencas)
  /\ pc' = "close"
  /\ UNCHANGED <<pdfVars, pdf_paths, next_pdf, processed_data, next_sheet,
                 writer_closed, cmpVars>>

\* lines 393-395
Close ==
  /\ pc = "close"
  /\ writer_closed' = TRUE
  /\ pc' = "done"
  /\ UNCHANGED <<pdfVars, pdf_paths, next_pdf, processed_data, next_sheet,
                 sheetnames, cmpVars>>

-----------------------------------------------------------------------------
(* Inputs of the batch *)

MaxDocs == 3
LongMonthLen == 19

Header == <<CodRef, <<"V">>>>

DocTables ==
  { <<>>,
    <<Header>>,
    <<Header, <<(<<"1">>), (<<"x">>)>>>>,
    <<Header, <<(<<"1">>), (<<"y">>)>>>> }

\* texts the pattern of line 20 matches: dd/dd/dd, and "d de <letters> de dddd"
ShortDate == <<"0", "1", "/", "0", "2", "/", "2", "4">>
LongDate ==
  <<"1", " ", "d", "e", " ">> \o [i \in 1..LongMonthLen |-> "a"]
    \o <<" ", "d", "e", " ", "2", "0", "2", "4">>

DateMatches == { <<>>, ShortDate, LongDate }

Docs ==
  { [raises |-> FALSE, tables |-> t, date_match |-> m, filename |-> <<"f">>] :
      t \in DocTables, m \in DateMatches }
    \cup { [raises |-> TRUE, tables |-> <<>>, date_match |-> <<>>, filename |-> <<"f">>] }

Init ==
  /\ pc = "start"
  /\ pdf_paths \in UNION { [1..n -> Docs] : n \in 0..MaxDocs }
  /\ next_pdf = 0
  /\ processed_data = <<>>
  /\ next_sheet = 0
  /\ sheetnames = <<>>
  /\ writer_closed = FALSE
  /\ all_tables = <<>>
  /\ header_row_idx = -1
  /\ data_rows = <<>>
  /\ df = NoneDF
  /\ df1 = NoneDF
  /\ df2 = NoneDF
  /\ date1 = <<>>
  /\ date2 = <<>>
  /\ all_codes = {}
  /\ differences = <<>>
  /\ comparison_result = NoResult

Next ==
  \/ Start
  \/ ProcessPdf
  \/ WriteSheet
  \/ BeginCompare
  \/ SkipCompare
  \/ CompareStep
  \/ CompareReturn
  \/ WriteDiff
  \/ Close

Spec == Init /\ [][Next]_vars

-----------------------------------------------------------------------------
(* Inputs of process_pdf_to_dataframe: raw rows of one or two cells *)

MaxRawRows == 3

HeaderCells ==
  { CodRef,                                   \* the marker itself
    <<" ">> \o CodRef,                        \* equal once stripped
    CodRef \o <<"S">>,                        \* contains it, differs from it
    <<"c", "ó", "d", ".", " ", "r", "e", "f">> } \* another case

KeyCells == { <<"1">>, <<" ">>, <<>> }

RawRows ==
  { <<c>> : c \in HeaderCells \cup KeyCells }
    \cup { <<k, c>> : k \in KeyCells, c \in {CodRef, <<"x">>} }

RawTables == UNION { [1..n -> RawRows] : n \in 0..MaxRawRows }

-----------------------------------------------------------------------------
(* process_pdf_to_dataframe, one step per block of the function *)

InitPdf ==
  /\ pc = "check_tables"
  /\ all_tables \in RawTables
  /\ header_row_idx = -1
  /\ data_rows = <<>>
  /\ df = NoneDF
  /\ pdf_paths = <<>>
  /\ next_pdf = 0
  /\ processed_data = <<>>
  /\ next_sheet = 0
  /\ sheetnames = <<>>
  /\ writer_closed = FALSE
  /\ df1 = NoneDF
  /\ df2 = NoneDF
  /\ date1 = <<>>
  /\ date2 = <<>>
  /\ all_codes = {}
  /\ differences = <<>>
  /\ comparison_result = NoResult

\* lines 54-56
CheckTables ==
  /\ pc = "check_tables"
  /\ pc' = IF all_tables = <<>> THEN "pdf_returned" ELSE "find_header"
  /\ UNCHANGED <<pdfVars, batchVars, cmpVars>>

FindHeader ==
  /\ pc = "find_header"
  /\ header_row_idx' = FindHeaderIdx(all_tables)
  /\ pc' = "collect"
  /\ UNCHANGED <<all_tables, data_rows, df, batchVars, cmpVars>>

CollectDataRows ==
  /\ pc = "collect"
  /\ data_rows' = CollectRows(all_tables, header_row_idx)
  /\ pc' = "clean"
  /\ UNCHANGED <<all_tables, header_row_idx, df, batchVars, cmpVars>>

CleanDataFrame ==
  /\ pc = "clean"
  /\ df' = MakeDataFrame(ActualHeaders(all_tables, header_row_idx), data_rows)
  /\ pc' = "pdf_returned"
  /\ UNCHANGED <<all_tables, header_row_idx, data_rows, batchVars, cmpVars>>

NextPdf == CheckTables \/ FindHeader \/ CollectDataRows \/ CleanDataFrame

SpecPdf == InitPdf /\ [][NextPdf]_vars

-----------------------------------------------------------------------------
(* Properties of process_pdf_to_dataframe (SpecPdf) *)

\* a cell with nothing but whitespace
Blank(cell) == \A i \in 1..Len(cell) : cell[i] \in Whitespace

\* the j-th smallest element of a set of integers
Nth(S, j) == CHOOSE i \in S : Cardinality({k \in S : k < i}) = j - 1

\* the raw rows strictly below the header row
Below == SubSeq(all_tables, header_row_idx + 2, Len(all_tables))

\* positions, among the rows below the header, of the rows normalization keeps
KeptPositions ==
  {i \in 1..Len(Below) :
     Len(Below[i]) = Len(all_tables[header_row_idx + 1]) /\ ~Blank(Below[i][1])}

\* C8: the DataFrame returned holds exactly the rows below the header that
\* have the header's number of cells and a first cell that is not blank, in
\* their original order and with their original cells.
C8_NormalizationKeepsExactly ==
  (pc = "pdf_returned" /\ ~df.none) =>
     /\ Len(df.rows) = Cardinality(KeptPositions)
     /\ \A j \in 1..Len(df.rows) : df.rows[j] = Below[Nth(KeptPositions, j)]

\* a row one cell short of the header was dropped and the other row was
\* kept: the record count is one less than the number of rows below
C8_Witness ==
  /\ pc = "pdf_returned"
  /\ ~df.none
  /\ Len(Below) = 2
  /\ Len(all_tables[header_row_idx + 1]) = 2
  /\ \E i \in 1..2 : Len(Below[i]) = 1
  /\ Len(df.rows) = 1

\* the cell holds the marker somewhere inside it
HoldsMarker(cell) ==
  \E a \in 0..Len(cell) :
     /\ a + Len(CodRef) <= Len(cell)
     /\ \A i \in 1..Len(CodRef) : cell[a + i] = CodRef[i]

\* the cell is the marker once its surrounding whitespace is removed
IsMarker(cell) ==
  \E a \in 0..Len(cell), b \in 0..Len(cell) :
     /\ a + Len(CodRef) + b = Len(cell)
     /\ \A i \in 1..a : cell[i] \in Whitespace
     /\ \A i \in 1..Len(CodRef) : cell[a + i] = CodRef[i]
     /\ \A i \in 1..b : cell[a + Len(CodRef) + i] \in Whitespace

\* the 0-based index of the first row with a cell that satisfies Test, else 0
FirstRowWith(Test(_)) ==
  LET Hit(i) == \E c \in 1..Len(all_tables[i + 1]) : Test(all_tables[i + 1][c])
  IN IF \E i \in 0..(Len(all_tables) - 1) : Hit(i)
     THEN CHOOSE i \in 0..(Len(all_tables) - 1) : Hit(i) /\ \A j \in 0..(i - 1) : ~Hit(j)
     ELSE 0

HeaderLocated == pc \in {"collect", "clean", "pdf_returned"} /\ all_tables # <<>>

\* C9 as stated: the header row is the first row with a cell whose trimmed
\* text equals "CÓD. REF" (equality, not containment); row 0 when there is
\* none.
C9_HeaderByTrimmedEquality ==
  HeaderLocated => header_row_idx = FirstRowWith(IsMarker)

\* C9 amended: the header row is the first row with a cell whose text
\* contains "CÓD. REF" (case-sensitive containment); row 0 when there is
\* none; the columns are that row and the data rows come from the rows after it.
C9_HeaderByContainment ==
  /\ HeaderLocated => header_row_idx = FirstRowWith(HoldsMarker)
  /\ (pc = "pdf_returned" /\ ~df.none) =>
       /\ df.columns = all_tables[header_row_idx + 1]
       /\ \A j \in 1..Len(df.rows) : \E i \in 1..Len(Below) : df.rows[j] = Below[i]

\* a row that only contains the marker was taken as the header although a
\* later row holds the marker itself
C9_Witness ==
  /\ pc = "pdf_returned"
  /\ ~df.none
  /\ header_row_idx = 0
  /\ \E c \in 1..Len(all_tables[1]) : HoldsMarker(all_tables[1][c])
  /\ \A c \in 1..Len(all_tables[1]) : ~IsMarker(all_tables[1][c])
  /\ \E i \in 1..Len(Below) : \E c \in 1..Len(Below[i]) : IsMarker(Below[i][c])

-----------------------------------------------------------------------------
(* Properties of compare_dataframes (SpecCompare) *)

TrimmedKey(row) == strip(row[1])

KeysOf(d) == {TrimmedKey(d.rows[i]) : i \in 1..Len(d.rows)}

\* positions of the rows of d with key k
PositionsOf(d, k) == {i \in 1..Len(d.rows) : TrimmedKey(d.rows[i]) = k}

FirstRowOf(d, k) == d.rows[CHOOSE i \in PositionsOf(d, k) : \A j \in PositionsOf(d, k) : i <= j]
LastRowOf(d, k) == d.rows[CHOOSE i \in PositionsOf(d, k) : \A j \in PositionsOf(d, k) : i >= j]

\* the rows of the returned table of differences (none when None is returned)
ResultRows == IF comparison_result.none THEN <<>> ELSE comparison_result.rows

StartsWith(s, prefix) ==
  Len(s) >= Len(prefix) /\ \A i \in 1..Len(prefix) : s[i] = prefix[i]

\* positions of the entries of the result for key k, by kind
EntriesOf(k) == {i \in 1..Len(ResultRows) : TrimmedKey(ResultRows[i].cells) = k}
ExclusiveOf(k) ==
  {i \in EntriesOf(k) : StartsWith(ResultRows[i].ORIGEM, ExclusivoEm)
                        /\ comparison_result.info[i][1].whole_row}
ConflictOf(k) ==
  {i \in EntriesOf(k) : StartsWith(ResultRows[i].ORIGEM, DiferencaEm)
                        /\ ~comparison_result.info[i][1].whole_row}

InExactlyOne(k) == (k \in KeysOf(df1)) # (k \in KeysOf(df2))
InBoth(k) == k \in KeysOf(df1) /\ k \in KeysOf(df2)

\* positions of the non-key columns on which rows a and b differ once trimmed
DifferingPositions(a, b) == {c \in 2..Len(df1.columns) : strip(a[c]) # strip(b[c])}

\* C1: the result holds exactly one Exclusive entry for every trimmed key
\* found in exactly one table, labelled with the date of the table that
\* holds the key, and no Exclusive entry for any other key.
C1_ExclusiveEntries ==
  pc = "compared" =>
    /\ \A i \in 1..Len(ResultRows) : TrimmedKey(ResultRows[i].cells) \in KeysOf(df1) \cup KeysOf(df2)
    /\ \A k \in KeysOf(df1) \cup KeysOf(df2) :
         IF InExactlyOne(k)
         THEN /\ Cardinality(ExclusiveOf(k)) = 1
              /\ \A i \in ExclusiveOf(k) :
                   ResultRows[i].ORIGEM =
                     ExclusivoEm \o (IF k \in KeysOf(df1) THEN date1 ELSE date2)
         ELSE ExclusiveOf(k) = {}

\* a key found only in the second table, twice, gave its one entry with the
\* second label while the labels differ
C1_Witness ==
  /\ pc = "compared"
  /\ date1 # date2
  /\ \E k \in KeysOf(df2) \ KeysOf(df1) :
       /\ Cardinality(PositionsOf(df2, k)) = 2
       /\ \E i \in ExclusiveOf(k) : ResultRows[i].ORIGEM = ExclusivoEm \o date2

\* C2: a key found in both tables has a Conflict entry exactly when some
\* non-key column differs once trimmed; when none differs the key has no
\* entry at all, and without any entry the result is None.
C2_ConflictIffDiffers ==
  pc = "compared" =>
    /\ \A k \in KeysOf(df1) \cap KeysOf(df2) :
         LET differs == DifferingPositions(FirstRowOf(df1, k), FirstRowOf(df2, k)) # {}
         IN /\ (ConflictOf(k) # {}) <=> differs
            /\ ~differs => EntriesOf(k) = {}
    /\ ( /\ \A k \in KeysOf(df1) \cup KeysOf(df2) : InBoth(k)
         /\ \A k \in KeysOf(df1) \cap KeysOf(df2) :
              DifferingPositions(FirstRowOf(df1, k), FirstRowOf(df2, k)) = {} )
       => comparison_result.none

\* a shared key whose rows differ in a non-key column as raw text only: it
\* has no entry and, being the only key, the result is None
C2_Witness ==
  /\ pc = "compared"
  /\ comparison_result.none
  /\ \E k \in KeysOf(df1) \cap KeysOf(df2) :
       /\ \E c \in 2..Len(df1.columns) : FirstRowOf(df1, k)[c] # FirstRowOf(df2, k)[c]
       /\ EntriesOf(k) = {}

\* the merged record and the column list the comparison of a with b gives
ConflictMatches(i, a, b) ==
  LET D == DifferingPositions(a, b)
      listed == comparison_result.info[i][1].columns
  IN /\ Len(listed) = Cardinality(D)
     /\ \A j \in 1..Len(listed) : listed[j] = df1.columns[Nth(D, j)]
     /\ \A c \in 1..Len(df1.columns) :
          ResultRows[i].cells[c] =
            IF c \in D THEN strip(a[c]) \o <<"/">> \o strip(b[c]) ELSE a[c]

\* C3: every Conflict entry lists exactly the columns whose trimmed values
\* differ between the row of the first table and the row of the second, in
\* column order; a listed column holds trim(A) "/" trim(B), any other
\* column the value of the first table's row.
C3_ConflictContent ==
  pc = "compared" =>
    \A k \in KeysOf(df1) \cup KeysOf(df2) : \A i \in ConflictOf(k) :
       \E pa \in PositionsOf(df1, k), pb \in PositionsOf(df2, k) :
          ConflictMatches(i, df1.rows[pa], df2.rows[pb])

\* a Conflict entry that lists both non-key columns, where the raw values
\* carry whitespace the merged cell does not
C3_Witness ==
  /\ pc = "compared"
  /\ \E k \in KeysOf(df1) \cap KeysOf(df2) : \E i \in ConflictOf(k) :
       /\ Len(comparison_result.info[i][1].columns) = 2
       /\ \E pa \in PositionsOf(df1, k) :
            /\ strip(df1.rows[pa][2]) # df1.rows[pa][2]
            /\ ResultRows[i].cells[2] # df1.rows[pa][2] \o <<"/">> \o FirstRowOf(df2, k)[2]

\* the rows the entries of key k are built from, when Pick resolves a key
\* to a row of a table
EntriesUse(Pick(_, _)) ==
  \A k \in KeysOf(df1) \cup KeysOf(df2) :
     /\ \A i \in ExclusiveOf(k) :
          ResultRows[i].cells = Pick(IF k \in KeysOf(df1) THEN df1 ELSE df2, k)
     /\ \A i \in ConflictOf(k) : ConflictMatches(i, Pick(df1, k), Pick(df2, k))

\* C4 as stated: a key that occurs in several rows of a table resolves to
\* the last row carrying it, for Exclusive and for Conflict entries.
C4_LastRowWins == pc = "compared" => EntriesUse(LastRowOf)

\* C4 amended: a key that occurs in several rows of a table resolves to the
\* first row carrying it, for Exclusive and for Conflict entries.
C4_FirstRowWins == pc = "compared" => EntriesUse(FirstRowOf)

\* a key carried by two different rows of the first table, with an entry
C4_Witness ==
  /\ pc = "compared"
  /\ \E k \in KeysOf(df1) :
       /\ FirstRowOf(df1, k) # LastRowOf(df1, k)
       /\ EntriesOf(k) # {}

-----------------------------------------------------------------------------
(* Properties of pdfs_to_excel_with_sheets (Spec) *)

\* the run is over: it returned, or the handler of line 397 caught an exception
RunOver == pc \in {"done", "error"}

\* positions of the documents that can be read and hold at least one raw row
Processable == {i \in 1..Len(pdf_paths) : ~pdf_paths[i].raises /\ pdf_paths[i].tables # <<>>}

SomeDocumentFails == \E i \in 1..Len(pdf_paths) : pdf_paths[i].raises

HasDiffSheet == \E j \in 1..Len(sheetnames) : sheetnames[j] = Diferencas

\* C5: when a document fails to be read, the run still writes one sheet for
\* every other document that holds a table and saves the workbook.
C5_FailureDoesNotAbort ==
  (RunOver /\ SomeDocumentFails) =>
     /\ writer_closed
     /\ next_sheet = Cardinality(Processable)
     /\ Len(sheetnames) >= Cardinality(Processable)

\* two tables differ: a key of one is missing in the other, or the rows of a
\* shared key differ in a non-key column once trimmed
HasDifference(a, b) ==
  \/ KeysOf(a) # KeysOf(b)
  \/ \E k \in KeysOf(a) : \E c \in 2..Len(a.columns) :
        strip(FirstRowOf(a, k)[c]) # strip(FirstRowOf(b, k)[c])

DiffSheetExpected ==
  /\ Cardinality(Processable) = 2
  /\ Len(processed_data) = 2
  /\ HasDifference(processed_data[1].df, processed_data[2].df)

C7_SheetNames ==
  /\ \A j \in 1..next_sheet :
       LET label == processed_data[j].date
           n == Cardinality({i \in 1..(j - 1) : processed_data[i].date = label})
       IN sheetnames[j] = IF n = 0 THEN label ELSE label \o <<"_">> \o IntToStr(n)
  /\ \A i, j \in 1..Len(sheetnames) : i # j => sheetnames[i] # sheetnames[j]

\* three documents with one label: the third sheet carries the suffix _2
C7_Witness ==
  /\ pc = "done"
  /\ next_sheet = 3
  /\ processed_data[1].date = processed_data[2].date
  /\ processed_data[2].date = processed_data[3].date
  /\ sheetnames[2] = processed_data[1].date \o <<"_", "1">>
  /\ sheetnames[3] = processed_data[1].date \o <<"_", "2">>

\* C10: every sheet name of the workbook has at most 31 characters.
C10_SheetNamesWithinLimit ==
  \A j \in 1..Len(sheetnames) : Len(sheetnames[j]) <= SheetNameLimit

====
